---- MODULE Spec2Model ----
(***************************************************************************)
(* Model of the lottery prize-verification engine of lottery_scan          *)
(* (src/server.go; src/unnamed/part_000 carries the same engine).          *)
(*                                                                         *)
(* Encodings.                                                              *)
(*  - A number token ("02") is a TLA+ string; the code only compares       *)
(*    tokens for equality.                                                 *)
(*  - A game label or an issue is a Go string the code searches or trims,  *)
(*    so it is modelled as the sequence of its UTF-8 bytes:                *)
(*    <<229,143,140,232,137,178,231,144,131>> is the DoubleColor label.    *)
(*  - An int64 (Multiplier, Prize, TotalPrize) is the sequence of its 8    *)
(*    two's-complement bytes, least significant first, so that products    *)
(*    and sums wrap modulo 2^64 exactly as Go's do.                        *)
(*  - The money a Verify returns stays far below 2^31 within the bounds    *)
(*    of the model and is kept as a plain integer until the handler        *)
(*    multiplies it.                                                       *)
(*  - Status texts are transliterated: "NotWon" for the no-win text,       *)
(*    "Won: <n> yuan" for the formatted win, "FirstPrize" for              *)
(*    Permutation5's win, "Unsupported" for the unsupported-game text.     *)
(***************************************************************************)
EXTENDS Integers, Sequences, FiniteSets, TLC

VARIABLES
    pc,             \* position of verifyHandler: "idle" (not running), "start",
                    \* "ticket", "rows", "append", "done"
    ocrResults,     \* []LotteryData returned by the OCR call
    idx,            \* 0-based index of the ticket being evaluated
    rowIdx,         \* 0-based index of the next row of that ticket
    winNum,         \* WinningNumbers looked up for that ticket
    verifier,       \* "DoubleColor" | "Lotto" | "Permutation5" | "nil"
    res,            \* <<the VerificationResult under construction>>, <<>> before the first
    finalResponse,  \* []VerificationResult
    httpStatus,     \* 0 until the handler answers; then 200, 400 or 500
    verifyCalls,    \* history: <<ticket, row>> of every Verify invocation
    call,           \* a direct call of one engine function: its name and arguments
    ret             \* <<>> before that call ran, <<its return value>> after

vars == <<pc, ocrResults, idx, rowIdx, winNum, verifier, res, finalResponse,
          httpStatus, verifyCalls, call, ret>>

handlerVars == <<pc, ocrResults, idx, rowIdx, winNum, verifier, res,
                 finalResponse, httpStatus, verifyCalls>>

(***************************************************************************)
(* Bounds                                                                  *)
(***************************************************************************)
MaxRedLen == 7
MaxBlueLen == 2
MaxCombLen == 4
MaxR == 5
MaxMonoRedLen == 6
MaxMonoBlueLen == 1
MaxLottoRedLen == 6
MaxLottoBlueLen == 3
MaxP5Len == 6
MaxLabelParts == 3
\* the tickets plus the rows of one OCR result
MaxWork == 4
MaxSentinelRedLen == 6
MaxSentinelBlueLen == 2
\* the tickets plus the rows of one OCR result given to both program variants
MaxVariantWork == 3

(***************************************************************************)
(* Generic helpers                                                         *)
(***************************************************************************)
Range(s) == {s[i] : i \in 1..Len(s)}

SeqsUpTo(S, n) == UNION {[1..k -> S] : k \in 0..n}

\* ret is <<>> before the call ran and <<value>> after it returned
NoRet == <<>>
Returned == ret # NoRet
RetVal == ret[1]
NoCall == [fn |-> "none"]

(***************************************************************************)
(* int64 as 8 little-endian bytes                                          *)
(***************************************************************************)
RECURSIVE NatToBytes(_, _)
NatToBytes(n, w) == IF w = 0 THEN <<>> ELSE <<n % 256>> \o NatToBytes(n \div 256, w - 1)

\* int64(n) for a plain integer 0 <= n < 2^31
I64(n) == NatToBytes(n, 8)

\* Column k of the schoolbook product: the sum of a[i] * b[k+1-i]
RECURSIVE MulColumn(_, _, _, _)
MulColumn(a, b, k, i) ==
    IF i > k THEN 0 ELSE a[i] * b[k + 1 - i] + MulColumn(a, b, k, i + 1)

\* Carry propagation over columns k..w; the carry out of column w is dropped
RECURSIVE Propagate(_, _, _, _)
Propagate(cols, k, w, carry) ==
    IF k > w THEN <<>>
    ELSE LET v == cols[k] + carry
         IN  <<v % 256>> \o Propagate(cols, k + 1, w, v \div 256)

\* The low w bytes of the product of two w-byte numbers
MulBytes(a, b, w) == Propagate([k \in 1..w |-> MulColumn(a, b, k, 1)], 1, w, 0)

\* The low w bytes of the sum of two w-byte numbers
AddBytes(a, b, w) == Propagate([k \in 1..w |-> a[k] + b[k]], 1, w, 0)

\* Go's int64 product: prize * int64(t.Multiplier), modulo 2^64
I64Mul(a, b) == MulBytes(a, b, 8)

\* Go's int64 sum: res.TotalPrize += total, modulo 2^64
I64Add(a, b) == AddBytes(a, b, 8)

(***************************************************************************)
(* 2. The engine: intersect, combinations and the three verifiers          *)
(***************************************************************************)
\* func intersect(a, b []string) int
intersect(a, b) ==
    LET m == Range(b)
    IN  Cardinality({i \in 1..Len(a) : a[i] \in m})

\* Mutant: the combinations that leave the head out are not appended
RECURSIVE combinations_HeadOnly(_, _)
combinations_HeadOnly(iterable, r) ==
    IF r = 0 THEN << <<>> >>
    ELSE IF Len(iterable) = 0 THEN <<>>
    ELSE LET head == Head(iterable)
             tail == Tail(iterable)
             withHead == combinations_HeadOnly(tail, r - 1)
         IN  [i \in 1..Len(withHead) |-> <<head>> \o withHead[i]]

\* func combinations(iterable []string, r int) [][]string
RECURSIVE combinations(_, _)
combinations(iterable, r) ==
    IF r = 0 THEN << <<>> >>
    ELSE IF Len(iterable) = 0 THEN <<>>
    ELSE LET head == Head(iterable)
             tail == Tail(iterable)
             withHead == combinations(tail, r - 1)
             result == [i \in 1..Len(withHead) |-> <<head>> \o withHead[i]]
         IN  result \o combinations(tail, r)

\* Mutant: the 4-red tiers swapped, (4,1) paying 10 and (4,0) paying 200
DoubleColorTier_Swapped(redHits, blueHits) ==
    IF redHits = 6 /\ blueHits = 1 THEN [level |-> 1, money |-> 5000000]
    ELSE IF redHits = 6 /\ blueHits = 0 THEN [level |-> 2, money |-> 100000]
    ELSE IF redHits = 5 /\ blueHits = 1 THEN [level |-> 3, money |-> 3000]
    ELSE IF redHits = 5 /\ blueHits = 0 THEN [level |-> 4, money |-> 200]
    ELSE IF redHits = 4 /\ blueHits = 1 THEN [level |-> 5, money |-> 10]
    ELSE IF redHits = 4 /\ blueHits = 0 THEN [level |-> 4, money |-> 200]
    ELSE IF redHits = 3 /\ blueHits = 1 THEN [level |-> 5, money |-> 10]
    ELSE IF blueHits = 1 THEN [level |-> 6, money |-> 5]
    ELSE [level |-> 0, money |-> 0]

\* The if/else-if chain of DoubleColorVerifier.Verify: (level, money) of one pair
DoubleColorTier(redHits, blueHits) ==
    IF redHits = 6 /\ blueHits = 1 THEN [level |-> 1, money |-> 5000000]
    ELSE IF redHits = 6 /\ blueHits = 0 THEN [level |-> 2, money |-> 100000]
    ELSE IF redHits = 5 /\ blueHits = 1 THEN [level |-> 3, money |-> 3000]
    ELSE IF redHits = 5 /\ blueHits = 0 THEN [level |-> 4, money |-> 200]
    ELSE IF redHits = 4 /\ blueHits = 1 THEN [level |-> 4, money |-> 200]
    ELSE IF redHits = 4 /\ blueHits = 0 THEN [level |-> 5, money |-> 10]
    ELSE IF redHits = 3 /\ blueHits = 1 THEN [level |-> 5, money |-> 10]
    ELSE IF blueHits = 1 THEN [level |-> 6, money |-> 5]
    ELSE [level |-> 0, money |-> 0]

\* Mutant: the comparison reversed, level > bestLevel, keeps the worst rank seen
DoubleColorPair_WorstLevel(redComb, b, win, acc) ==
    LET redHits == intersect(redComb, win.Red)
        blueHits == IF Len(win.Blue) > 0 /\ b = win.Blue[1] THEN 1 ELSE 0
        tier == DoubleColorTier(redHits, blueHits)
    IN  IF tier.money > 0
        THEN [totalMoney |-> acc.totalMoney + tier.money,
              bestLevel |-> IF acc.bestLevel = 0 \/ tier.level > acc.bestLevel
                            THEN tier.level ELSE acc.bestLevel]
        ELSE acc

\* The body of the inner loop: one (redComb, b) pair folded into the accumulators
DoubleColorPair(redComb, b, win, acc) ==
    LET redHits == intersect(redComb, win.Red)
        blueHits == IF Len(win.Blue) > 0 /\ b = win.Blue[1] THEN 1 ELSE 0
        tier == DoubleColorTier(redHits, blueHits)
    IN  IF tier.money > 0
        THEN [totalMoney |-> acc.totalMoney + tier.money,
              bestLevel |-> IF acc.bestLevel = 0 \/ tier.level < acc.bestLevel
                            THEN tier.level ELSE acc.bestLevel]
        ELSE acc

\* for _, b := range t.Blue
RECURSIVE DoubleColorBlueLoop(_, _, _, _, _)
DoubleColorBlueLoop(redComb, blue, win, j, acc) ==
    IF j > Len(blue) THEN acc
    ELSE DoubleColorBlueLoop(redComb, blue, win, j + 1,
                             DoubleColorPair(redComb, blue[j], win, acc))

\* for _, redComb := range redCombs
RECURSIVE DoubleColorCombLoop(_, _, _, _, _)
DoubleColorCombLoop(redCombs, blue, win, i, acc) ==
    IF i > Len(redCombs) THEN acc
    ELSE DoubleColorCombLoop(redCombs, blue, win, i + 1,
                             DoubleColorBlueLoop(redCombs[i], blue, win, 1, acc))

\* fmt.Sprintf of the win status
WonStatus(money) == "Won: " \o ToString(money) \o " yuan"

\* Mutant: redHits taken from the whole row, intersect(t.Red, win.Red), not from redComb
DoubleColorVerifier_Verify_RowHits(t, win) ==
    LET redCombs == combinations(t.Red, 6)
        acc == DoubleColorCombLoop([i \in 1..Len(redCombs) |-> t.Red], t.Blue, win, 1,
                                   [bestLevel |-> 0, totalMoney |-> 0])
    IN  [level |-> acc.bestLevel,
         money |-> acc.totalMoney,
         status |-> IF acc.totalMoney > 0 THEN WonStatus(acc.totalMoney) ELSE "NotWon"]

\* func (v *DoubleColorVerifier) Verify(t UserTicket, win WinningNumbers) (int, int64, string)
DoubleColorVerifier_Verify(t, win) ==
    LET redCombs == combinations(t.Red, 6)
        acc == DoubleColorCombLoop(redCombs, t.Blue, win, 1,
                                   [bestLevel |-> 0, totalMoney |-> 0])
    IN  [level |-> acc.bestLevel,
         money |-> acc.totalMoney,
         status |-> IF acc.totalMoney > 0 THEN WonStatus(acc.totalMoney) ELSE "NotWon"]

\* Mutant: the (4,0) branch tested before the (3,2) branch and paying its 200
LottoTier_Misordered(redHits, blueHits) ==
    IF redHits = 5 /\ blueHits = 2 THEN [level |-> 1, money |-> 10000000]
    ELSE IF redHits = 5 /\ blueHits = 1 THEN [level |-> 2, money |-> 200000]
    ELSE IF redHits = 5 /\ blueHits = 0 THEN [level |-> 3, money |-> 10000]
    ELSE IF redHits = 4 /\ blueHits = 2 THEN [level |-> 4, money |-> 3000]
    ELSE IF redHits = 4 /\ blueHits = 1 THEN [level |-> 5, money |-> 300]
    ELSE IF redHits = 4 /\ blueHits = 0 THEN [level |-> 6, money |-> 200]
    ELSE IF redHits = 3 /\ blueHits = 2 THEN [level |-> 7, money |-> 100]
    ELSE IF redHits = 3 /\ blueHits = 1 THEN [level |-> 8, money |-> 15]
    ELSE IF redHits = 2 /\ blueHits = 2 THEN [level |-> 8, money |-> 15]
    ELSE IF redHits = 3 /\ blueHits = 0 THEN [level |-> 9, money |-> 5]
    ELSE IF redHits = 2 /\ blueHits = 1 THEN [level |-> 9, money |-> 5]
    ELSE IF redHits = 1 /\ blueHits = 2 THEN [level |-> 9, money |-> 5]
    ELSE IF redHits = 0 /\ blueHits = 2 THEN [level |-> 9, money |-> 5]
    ELSE [level |-> 0, money |-> 0]

\* The if/else-if chain of LottoVerifier.Verify
LottoTier(redHits, blueHits) ==
    IF redHits = 5 /\ blueHits = 2 THEN [level |-> 1, money |-> 10000000]
    ELSE IF redHits = 5 /\ blueHits = 1 THEN [level |-> 2, money |-> 200000]
    ELSE IF redHits = 5 /\ blueHits = 0 THEN [level |-> 3, money |-> 10000]
    ELSE IF redHits = 4 /\ blueHits = 2 THEN [level |-> 4, money |-> 3000]
    ELSE IF redHits = 4 /\ blueHits = 1 THEN [level |-> 5, money |-> 300]
    ELSE IF redHits = 3 /\ blueHits = 2 THEN [level |-> 6, money |-> 200]
    ELSE IF redHits = 4 /\ blueHits = 0 THEN [level |-> 7, money |-> 100]
    ELSE IF redHits = 3 /\ blueHits = 1 THEN [level |-> 8, money |-> 15]
    ELSE IF redHits = 2 /\ blueHits = 2 THEN [level |-> 8, money |-> 15]
    ELSE IF redHits = 3 /\ blueHits = 0 THEN [level |-> 9, money |-> 5]
    ELSE IF redHits = 2 /\ blueHits = 1 THEN [level |-> 9, money |-> 5]
    ELSE IF redHits = 1 /\ blueHits = 2 THEN [level |-> 9, money |-> 5]
    ELSE IF redHits = 0 /\ blueHits = 2 THEN [level |-> 9, money |-> 5]
    ELSE [level |-> 0, money |-> 0]

\* func (v *LottoVerifier) Verify(t UserTicket, win WinningNumbers) (int, int64, string)
LottoVerifier_Verify(t, win) ==
    LET redHits == intersect(t.Red, win.Red)
        blueHits == intersect(t.Blue, win.Blue)
        tier == LottoTier(redHits, blueHits)
    IN  [level |-> tier.level,
         money |-> tier.money,
         status |-> IF tier.money > 0 THEN WonStatus(tier.money) ELSE "NotWon"]

\* Mutant: the loop stops one position early, for i := 0; i < 4; i++
RECURSIVE Permutation5Match_FourPositions(_, _, _)
Permutation5Match_FourPositions(red, winRed, i) ==
    IF i > 4 THEN TRUE
    ELSE IF red[i] # winRed[i] THEN FALSE
    ELSE Permutation5Match_FourPositions(red, winRed, i + 1)

\* The position loop of Permutation5Verifier.Verify: for i := 0; i < 5; i++
RECURSIVE Permutation5Match(_, _, _)
Permutation5Match(red, winRed, i) ==
    IF i > 5 THEN TRUE
    ELSE IF red[i] # winRed[i] THEN FALSE
    ELSE Permutation5Match(red, winRed, i + 1)

\* func (v *Permutation5Verifier) Verify(t UserTicket, win WinningNumbers) (int, int64, string)
Permutation5Verifier_Verify(t, win) ==
    LET match == IF Len(t.Red) # 5 \/ Len(win.Red) # 5 THEN FALSE
                 ELSE Permutation5Match(t.Red, win.Red, 1)
    IN  IF match THEN [level |-> 1, money |-> 100000, status |-> "FirstPrize"]
        ELSE [level |-> 0, money |-> 0, status |-> "NotWon"]

(***************************************************************************)
(* 4./5. The results lookup and the registry of verifyHandler               *)
(***************************************************************************)
\* The UTF-8 bytes of the three game labels the code searches for
LabelDoubleColor == <<229, 143, 140, 232, 137, 178, 231, 144, 131>>
LabelLotto == <<229, 164, 167, 228, 185, 144, 233, 128, 143>>
LabelPermutation5 == <<230, 142, 146, 229, 136, 151, 53>>

\* strings.Contains(s, substr)
Contains(s, substr) ==
    \E i \in 0..(Len(s) - Len(substr)) : SubSeq(s, i + 1, i + Len(substr)) = substr

\* The ASCII bytes strings.TrimSpace strips: '\t', '\n', '\v', '\f', '\r', ' '
IsSpace(c) == c \in {9, 10, 11, 12, 13, 32}

\* The UTF-8 encodings of the other runes unicode.IsSpace holds, which
\* strings.TrimSpace strips as well: U+0085, U+00A0, U+1680, U+2000..U+200A,
\* U+2028, U+2029, U+202F, U+205F, U+3000
UnicodeSpaceRunes ==
    { <<194, 133>>, <<194, 160>>, <<225, 154, 128>>, <<226, 128, 168>>,
      <<226, 128, 169>>, <<226, 128, 175>>, <<226, 129, 159>>, <<227, 128, 128>> }
    \cup { <<226, 128, b>> : b \in 128..138 }

\* The number of bytes of the white-space rune s starts with, 0 if it starts with none
LeadingSpaceLen(s) ==
    IF s = <<>> THEN 0
    ELSE IF IsSpace(Head(s)) THEN 1
    ELSE LET starts == {r \in UnicodeSpaceRunes :
                          Len(r) <= Len(s) /\ SubSeq(s, 1, Len(r)) = r}
         IN  IF starts = {} THEN 0 ELSE Len(CHOOSE r \in starts : TRUE)

\* The number of bytes of the white-space rune s ends with, 0 if it ends with none
TrailingSpaceLen(s) ==
    IF s = <<>> THEN 0
    ELSE IF IsSpace(s[Len(s)]) THEN 1
    ELSE LET ends == {r \in UnicodeSpaceRunes :
                        Len(r) <= Len(s) /\ SubSeq(s, Len(s) - Len(r) + 1, Len(s)) = r}
         IN  IF ends = {} THEN 0 ELSE Len(CHOOSE r \in ends : TRUE)

\* strings.TrimSpace(s): the leading, then the trailing white-space runes removed
RECURSIVE TrimLeft(_)
TrimLeft(s) ==
    IF LeadingSpaceLen(s) > 0
    THEN TrimLeft(SubSeq(s, LeadingSpaceLen(s) + 1, Len(s)))
    ELSE s

RECURSIVE TrimRight(_)
TrimRight(s) ==
    IF TrailingSpaceLen(s) > 0
    THEN TrimRight(SubSeq(s, 1, Len(s) - TrailingSpaceLen(s)))
    ELSE s

TrimSpace(s) == TrimRight(TrimLeft(s))

\* The bytes of the issues "2025107" and "2025145"
Issue2025107 == <<50, 48, 50, 53, 49, 48, 55>>
Issue2025145 == <<50, 48, 50, 53, 49, 52, 53>>

\* func getMockWinningNumber(lotteryType, issue string) WinningNumbers
getMockWinningNumber(lotteryType, issue) ==
    LET trimmed == TrimSpace(issue)
    IN  IF Contains(lotteryType, LabelDoubleColor) /\ trimmed = Issue2025107
        THEN [Red |-> <<"02", "11", "15", "21", "28", "33">>, Blue |-> <<"07">>]
        ELSE IF Contains(lotteryType, LabelDoubleColor) /\ trimmed = Issue2025145
        THEN [Red |-> <<"02", "09", "15", "23", "28", "33">>, Blue |-> <<"06">>]
        ELSE [Red |-> <<"00">>, Blue |-> <<"00">>]

\* Mutant: the issue is compared as received, without strings.TrimSpace
getMockWinningNumber_part_000_NoTrim(lotteryType, issue) ==
    IF Contains(lotteryType, LabelDoubleColor) /\ issue = Issue2025107
    THEN [Red |-> <<"02", "11", "15", "21", "28", "33">>, Blue |-> <<"07">>]
    ELSE [Red |-> <<"00">>, Blue |-> <<"00">>]

\* func getMockWinningNumber(lotteryType, issue string) WinningNumbers
\* as src/unnamed/part_000 defines it: one drawing only, issue 2025107
getMockWinningNumber_part_000(lotteryType, issue) ==
    LET trimmed == TrimSpace(issue)
    IN  IF Contains(lotteryType, LabelDoubleColor) /\ trimmed = Issue2025107
        THEN [Red |-> <<"02", "11", "15", "21", "28", "33">>, Blue |-> <<"07">>]
        ELSE [Red |-> <<"00">>, Blue |-> <<"00">>]

\* verifier.Verify(t, winNum): the dynamic dispatch on the resolved verifier
Verify(v, t, win) ==
    IF v = "DoubleColor" THEN DoubleColorVerifier_Verify(t, win)
    ELSE IF v = "Lotto" THEN LottoVerifier_Verify(t, win)
    ELSE Permutation5Verifier_Verify(t, win)

\* Mutant: the Lotto label is tested before the DoubleColor label
ResolveVerifier_LottoFirst(lotteryType) ==
    IF Contains(lotteryType, LabelLotto) THEN "Lotto"
    ELSE IF Contains(lotteryType, LabelDoubleColor) THEN "DoubleColor"
    ELSE IF Contains(lotteryType, LabelPermutation5) THEN "Permutation5"
    ELSE "nil"

\* var verifier Verifier; if strings.Contains(lottery.Type, ...) ... else if ...
ResolveVerifier(lotteryType) ==
    IF Contains(lotteryType, LabelDoubleColor) THEN "DoubleColor"
    ELSE IF Contains(lotteryType, LabelLotto) THEN "Lotto"
    ELSE IF Contains(lotteryType, LabelPermutation5) THEN "Permutation5"
    ELSE "nil"

(***************************************************************************)
(* 5. verifyHandler                                                        *)
(***************************************************************************)
\* Multipliers as int64 bytes: 2, 1844674407370 and 1844674407371.
\* 5000000 * 1844674407370 is the largest jackpot product below 2^63.
Mult2 == I64(2)
MultBig == <<202, 171, 41, 127, 173, 1, 0, 0>>
MultOver == <<203, 171, 41, 127, 173, 1, 0, 0>>

\* The rows the OCR result is built from
RowPool ==
    { [Red |-> <<"02", "11", "15", "21", "28", "33", "05">>, Blue |-> <<"07">>,
       Multiplier |-> Mult2, Mode |-> ""],
      [Red |-> <<"02", "11", "15", "21", "28", "33">>, Blue |-> <<"07">>,
       Multiplier |-> MultBig, Mode |-> ""],
      [Red |-> <<"02", "11", "15", "21", "28", "33">>, Blue |-> <<"07">>,
       Multiplier |-> MultOver, Mode |-> ""] }

\* The bytes of a scratch-card label (no supported game) and of issue "2025001"
LabelScratch == <<229, 136, 174, 229, 136, 174, 228, 185, 144>>
Issue2025001 == <<50, 48, 50, 53, 48, 48, 49>>

\* The bytes of "2025107" followed by U+3000, the ideographic space, and of
\* "2025145" preceded by U+00A0, the no-break space
IssueWide2025107 == Issue2025107 \o <<227, 128, 128>>
IssueWide2025145 == <<194, 160>> \o Issue2025145

\* The (Type, Issue) heads of the tickets: every game label and the scratch
\* card under the issue the lookup holds a drawing for, and the DoubleColor
\* label under an issue it holds none for and under "2025107" followed by an
\* ideographic space.
HeadPool ==
    { [Type |-> ty, Issue |-> Issue2025107] :
        ty \in {LabelDoubleColor, LabelLotto, LabelPermutation5, LabelScratch} }
    \cup { [Type |-> LabelDoubleColor, Issue |-> Issue2025001],
           [Type |-> LabelDoubleColor, Issue |-> IssueWide2025107] }

\* Every LotteryData of at most w tickets-plus-rows
LotteriesUpTo(w) ==
    { [Type |-> h.Type, Issue |-> h.Issue, Tickets |-> rs] :
        h \in HeadPool, rs \in SeqsUpTo(RowPool, w - 1) }

\* Every OCR result of at most w tickets-plus-rows
RECURSIVE BatchesUpTo(_)
BatchesUpTo(w) ==
    IF w = 0 THEN {<<>>}
    ELSE {<<>>} \cup
         UNION { { <<l>> \o b : b \in BatchesUpTo(w - 1 - Len(l.Tickets)) } :
                 l \in LotteriesUpTo(w) }

Init ==
    /\ pc = "start"
    /\ ocrResults = <<>>
    /\ idx = 0
    /\ rowIdx = 0
    /\ winNum = [Red |-> <<>>, Blue |-> <<>>]
    /\ verifier = "nil"
    /\ res = <<>>
    /\ finalResponse = <<>>
    /\ httpStatus = 0
    /\ verifyCalls = <<>>
    /\ call = NoCall
    /\ ret = NoRet

\* The early returns: no "image" file (400), no API key or a failed OCR call (500)
EarlyReturn ==
    /\ pc = "start"
    /\ \E code \in {400, 500} : httpStatus' = code
    /\ pc' = "done"
    /\ UNCHANGED <<ocrResults, idx, rowIdx, winNum, verifier, res, finalResponse,
                   verifyCalls, call, ret>>

\* ocrResults, err := callGeminiOCR(...) with err == nil; finalResponse := []
OcrReturns ==
    /\ pc = "start"
    /\ \E batch \in BatchesUpTo(MaxWork) : ocrResults' = batch
    /\ finalResponse' = <<>>
    /\ idx' = 0
    /\ pc' = "ticket"
    /\ UNCHANGED <<rowIdx, winNum, verifier, res, httpStatus, verifyCalls, call, ret>>

\* The loop conditions of verifyHandler
MoreTickets == pc = "ticket" /\ idx < Len(ocrResults)
NoMoreTickets == pc = "ticket" /\ idx >= Len(ocrResults)
MoreRows == pc = "rows" /\ verifier # "nil" /\ rowIdx < Len(ocrResults[idx + 1].Tickets)
NoMoreRows == pc = "rows" /\ verifier # "nil" /\ rowIdx >= Len(ocrResults[idx + 1].Tickets)
NoVerifier == pc = "rows" /\ verifier = "nil"

\* The head of the loop over ocrResults: lookup, registry, a fresh result
BeginTicket ==
    /\ MoreTickets
    /\ LET lottery == ocrResults[idx + 1]
       IN  /\ winNum' = getMockWinningNumber(lottery.Type, lottery.Issue)
           /\ verifier' = ResolveVerifier(lottery.Type)
           /\ res' = << [TicketIndex |-> idx + 1, OCRData |-> lottery,
                         TotalPrize |-> I64(0), Details |-> <<>>] >>
    /\ rowIdx' = 0
    /\ pc' = "rows"
    /\ UNCHANGED <<ocrResults, idx, finalResponse, httpStatus, verifyCalls, call, ret>>

\* One iteration of the loop over lottery.Tickets
VerifyRow ==
    /\ MoreRows
    /\ LET t == ocrResults[idx + 1].Tickets[rowIdx + 1]
           v == Verify(verifier, t, winNum)
           total == I64Mul(I64(v.money), t.Multiplier)
       IN  res' = << [res[1] EXCEPT
                       !.TotalPrize = I64Add(@, total),
                       !.Details = Append(@, [RowIndex |-> rowIdx + 1, Level |-> v.level,
                                              Prize |-> total, Status |-> v.status])] >>
    /\ verifyCalls' = Append(verifyCalls, <<idx + 1, rowIdx + 1>>)
    /\ rowIdx' = rowIdx + 1
    /\ UNCHANGED <<pc, ocrResults, idx, winNum, verifier, finalResponse, httpStatus,
                   call, ret>>

\* Mutant: the handler answers as soon as it meets an unsupported game
RecordUnsupported_Abort ==
    /\ NoVerifier
    /\ res' = << [res[1] EXCEPT
                   !.Details = Append(@, [RowIndex |-> 0, Level |-> 0, Prize |-> I64(0),
                                          Status |-> "Unsupported"])] >>
    /\ finalResponse' = Append(finalResponse, res'[1])
    /\ httpStatus' = 200
    /\ pc' = "done"
    /\ UNCHANGED <<ocrResults, idx, rowIdx, winNum, verifier, verifyCalls, call, ret>>

\* The else branch: verifier == nil
RecordUnsupported ==
    /\ NoVerifier
    /\ res' = << [res[1] EXCEPT
                   !.Details = Append(@, [RowIndex |-> 0, Level |-> 0, Prize |-> I64(0),
                                          Status |-> "Unsupported"])] >>
    /\ pc' = "append"
    /\ UNCHANGED <<ocrResults, idx, rowIdx, winNum, verifier, finalResponse, httpStatus,
                   verifyCalls, call, ret>>

\* The rows are exhausted, or the unsupported detail is recorded:
\* finalResponse = append(finalResponse, res), and on to the next ticket
EndTicket ==
    /\ \/ NoMoreRows
       \/ pc = "append"
    /\ finalResponse' = Append(finalResponse, res[1])
    /\ idx' = idx + 1
    /\ pc' = "ticket"
    /\ UNCHANGED <<ocrResults, rowIdx, winNum, verifier, res, httpStatus, verifyCalls,
                   call, ret>>

\* c.JSON(200, finalResponse)
Respond ==
    /\ NoMoreTickets
    /\ httpStatus' = 200
    /\ pc' = "done"
    /\ UNCHANGED <<ocrResults, idx, rowIdx, winNum, verifier, res, finalResponse,
                   verifyCalls, call, ret>>

Next ==
    \/ EarlyReturn
    \/ OcrReturns
    \/ BeginTicket
    \/ VerifyRow
    \/ RecordUnsupported
    \/ EndTicket
    \/ Respond

Spec == Init /\ [][Next]_vars

(***************************************************************************)
(* Direct calls of the engine functions: the inputs are drawn by Init,     *)
(* the action applies the function.                                        *)
(***************************************************************************)
RedTokens == {"02", "05"}
BlueTokens == {"07", "06"}
CombTokens == {"02", "05", "11"}

UserTicket(red, blue) ==
    [Red |-> red, Blue |-> blue, Multiplier |-> I64(1), Mode |-> ""]

\* Winning numbers the direct calls are scored against; the first is the
\* drawing getMockWinningNumber holds for issue 2025107.
WinRedPool == { <<"02", "11", "15", "21", "28", "33">>, <<"02", "05">>, <<>> }
WinBluePool == { <<"07">>, <<"06", "07">>, <<>> }
WinPool == [Red : WinRedPool, Blue : WinBluePool]

HandlerIdle ==
    /\ pc = "idle"
    /\ ocrResults = <<>>
    /\ idx = 0
    /\ rowIdx = 0
    /\ winNum = [Red |-> <<>>, Blue |-> <<>>]
    /\ verifier = "nil"
    /\ res = <<>>
    /\ finalResponse = <<>>
    /\ httpStatus = 0
    /\ verifyCalls = <<>>

DoubleColorCalls ==
    { [fn |-> "DoubleColorVerifier.Verify", t |-> UserTicket(r, b), win |-> w] :
        r \in SeqsUpTo(RedTokens, MaxRedLen), b \in SeqsUpTo(BlueTokens, MaxBlueLen),
        w \in WinPool }

InitDoubleColor ==
    /\ HandlerIdle
    /\ call \in DoubleColorCalls
    /\ ret = NoRet

CallDoubleColor ==
    /\ call.fn = "DoubleColorVerifier.Verify"
    /\ ret = NoRet
    /\ ret' = <<DoubleColorVerifier_Verify(call.t, call.win)>>
    /\ UNCHANGED <<handlerVars, call>>

SpecDoubleColor == InitDoubleColor /\ [][CallDoubleColor]_vars

\* The rows a further red token is added to
MonotonicCalls ==
    { [fn |-> "DoubleColorVerifier.Verify", t |-> UserTicket(r, b), win |-> w] :
        r \in SeqsUpTo(RedTokens, MaxMonoRedLen), b \in SeqsUpTo(BlueTokens, MaxMonoBlueLen),
        w \in WinPool }

InitMonotonic ==
    /\ HandlerIdle
    /\ call \in MonotonicCalls
    /\ ret = NoRet

SpecMonotonic == InitMonotonic /\ [][CallDoubleColor]_vars

LottoWinPool ==
    [Red : { <<"02", "11", "15", "21", "28">>, <<"02", "05">>, <<>> },
     Blue : { <<"07", "06">>, <<"07">>, <<>> }]

LottoCalls ==
    { [fn |-> "LottoVerifier.Verify", t |-> UserTicket(r, b), win |-> w] :
        r \in SeqsUpTo(RedTokens, MaxLottoRedLen),
        b \in SeqsUpTo(BlueTokens, MaxLottoBlueLen), w \in LottoWinPool }

InitLotto ==
    /\ HandlerIdle
    /\ call \in LottoCalls
    /\ ret = NoRet

CallLotto ==
    /\ call.fn = "LottoVerifier.Verify"
    /\ ret = NoRet
    /\ ret' = <<LottoVerifier_Verify(call.t, call.win)>>
    /\ UNCHANGED <<handlerVars, call>>

SpecLotto == InitLotto /\ [][CallLotto]_vars

DigitTokens == {"1", "2"}

Permutation5Calls ==
    { [fn |-> "Permutation5Verifier.Verify", t |-> UserTicket(r, <<>>),
       win |-> [Red |-> w, Blue |-> <<>>]] :
        r \in SeqsUpTo(DigitTokens, MaxP5Len), w \in SeqsUpTo(DigitTokens, MaxP5Len) }

InitPermutation5 ==
    /\ HandlerIdle
    /\ call \in Permutation5Calls
    /\ ret = NoRet

CallPermutation5 ==
    /\ call.fn = "Permutation5Verifier.Verify"
    /\ ret = NoRet
    /\ ret' = <<Permutation5Verifier_Verify(call.t, call.win)>>
    /\ UNCHANGED <<handlerVars, call>>

SpecPermutation5 == InitPermutation5 /\ [][CallPermutation5]_vars

\* Labels are built from the three game labels and a label of no game
\* (the bytes of a welfare-lottery prefix), in every order.
LabelOther == <<231, 166, 143, 229, 189, 169>>
LabelParts == {LabelDoubleColor, LabelLotto, LabelPermutation5, LabelOther}

RECURSIVE Flatten(_)
Flatten(parts) == IF parts = <<>> THEN <<>> ELSE Head(parts) \o Flatten(Tail(parts))

RegistryCalls ==
    { [fn |-> "resolve", parts |-> ps, lotteryType |-> Flatten(ps)] :
        ps \in SeqsUpTo(LabelParts, MaxLabelParts) }

InitRegistry ==
    /\ HandlerIdle
    /\ call \in RegistryCalls
    /\ ret = NoRet

CallRegistry ==
    /\ call.fn = "resolve"
    /\ ret = NoRet
    /\ ret' = <<ResolveVerifier(call.lotteryType)>>
    /\ UNCHANGED <<handlerVars, call>>

SpecRegistry == InitRegistry /\ [][CallRegistry]_vars

CombinationsCalls ==
    { [fn |-> "combinations", iterable |-> s, r |-> r] :
        s \in SeqsUpTo(CombTokens, MaxCombLen), r \in 0..MaxR }

InitCombinations ==
    /\ HandlerIdle
    /\ call \in CombinationsCalls
    /\ ret = NoRet

CallCombinations ==
    /\ call.fn = "combinations"
    /\ ret = NoRet
    /\ ret' = <<combinations(call.iterable, call.r)>>
    /\ UNCHANGED <<handlerVars, call>>

SpecCombinations == InitCombinations /\ [][CallCombinations]_vars

\* One pass of the body of the loop over ocrResults for one row: the lookup,
\* the registry and, if verifier != nil, verifier.Verify(t, winNum) on the
\* row; with no verifier, no Verify call is made and the result is the level,
\* prize and status of the unsupported detail
LookupAndVerify(lotteryType, issue, t) ==
    LET win == getMockWinningNumber(lotteryType, issue)
        v == ResolveVerifier(lotteryType)
    IN  [winNum |-> win, verifier |-> v,
         result |-> IF v # "nil" THEN Verify(v, t, win)
                    ELSE [level |-> 0, money |-> 0, status |-> "Unsupported"]]

\* Rows that may hold the token "00", under each game label and a label of
\* no game, under an issue the lookup holds a drawing for (as such and
\* followed by an ideographic space) and one it holds none for
SentinelRedTokens == {"00", "02"}
SentinelBlueTokens == {"00", "07"}

LookupVerifyCalls ==
    { [fn |-> "lookupAndVerify", Type |-> ty, Issue |-> is, t |-> UserTicket(r, b)] :
        ty \in {LabelDoubleColor, LabelLotto, LabelPermutation5, LabelScratch},
        is \in {Issue2025107, IssueWide2025107, Issue2025001},
        r \in SeqsUpTo(SentinelRedTokens, MaxSentinelRedLen),
        b \in SeqsUpTo(SentinelBlueTokens, MaxSentinelBlueLen) }

InitLookupVerify ==
    /\ HandlerIdle
    /\ call \in LookupVerifyCalls
    /\ ret = NoRet

CallLookupVerify ==
    /\ call.fn = "lookupAndVerify"
    /\ ret = NoRet
    /\ ret' = <<LookupAndVerify(call.Type, call.Issue, call.t)>>
    /\ UNCHANGED <<handlerVars, call>>

SpecLookupVerify == InitLookupVerify /\ [][CallLookupVerify]_vars

(***************************************************************************)
(* The loop of verifyHandler as a function of the OCR result, for the two  *)
(* program variants. The engine (intersect, combinations, the verifiers)   *)
(* and the loop are the same text in src/server.go and in                  *)
(* src/unnamed/part_000; the variants differ in getMockWinningNumber.      *)
(***************************************************************************)
\* for rowIdx, t := range lottery.Tickets, from row k on, folded into res
RECURSIVE VerifyRows(_, _, _, _, _)
VerifyRows(v, rows, win, k, r) ==
    IF k > Len(rows) THEN r
    ELSE LET t == rows[k]
             out == Verify(v, t, win)
             total == I64Mul(I64(out.money), t.Multiplier)
         IN  VerifyRows(v, rows, win, k + 1,
                        [r EXCEPT
                           !.TotalPrize = I64Add(@, total),
                           !.Details = Append(@, [RowIndex |-> k, Level |-> out.level,
                                                  Prize |-> total, Status |-> out.status])])

\* The body of the loop over ocrResults once winNum is looked up: the res
\* that is appended to finalResponse
TicketResult(ticketIndex, lottery, win) ==
    LET v == ResolveVerifier(lottery.Type)
        fresh == [TicketIndex |-> ticketIndex, OCRData |-> lottery,
                  TotalPrize |-> I64(0), Details |-> <<>>]
    IN  IF v # "nil"
        THEN VerifyRows(v, lottery.Tickets, win, 1, fresh)
        ELSE [fresh EXCEPT
                !.Details = Append(@, [RowIndex |-> 0, Level |-> 0, Prize |-> I64(0),
                                       Status |-> "Unsupported"])]

\* verifyHandler of src/server.go from ocrResults on: the winning numbers
\* looked up for every ticket and the finalResponse
verifyHandler(ocr) ==
    LET win == [i \in 1..Len(ocr) |-> getMockWinningNumber(ocr[i].Type, ocr[i].Issue)]
    IN  [winNum |-> win,
         finalResponse |-> [i \in 1..Len(ocr) |-> TicketResult(i, ocr[i], win[i])]]

\* verifyHandler of src/unnamed/part_000 from ocrResults on
verifyHandler_part_000(ocr) ==
    LET win == [i \in 1..Len(ocr) |->
                   getMockWinningNumber_part_000(ocr[i].Type, ocr[i].Issue)]
    IN  [winNum |-> win,
         finalResponse |-> [i \in 1..Len(ocr) |-> TicketResult(i, ocr[i], win[i])]]

\* The bytes of " 2025107" and of "2025145\n": issues with white space around
IssuePadded2025107 == <<32>> \o Issue2025107
IssuePadded2025145 == Issue2025145 \o <<10>>

\* The heads of the tickets both variants evaluate
VariantHeadPool ==
    { [Type |-> LabelDoubleColor, Issue |-> is] :
        is \in {Issue2025107, IssuePadded2025107, IssueWide2025107, Issue2025145,
                IssuePadded2025145, IssueWide2025145, Issue2025001} }
    \cup { [Type |-> LabelLotto, Issue |-> Issue2025145],
           [Type |-> LabelScratch, Issue |-> Issue2025145] }

\* Their rows: the jackpot row of drawing 2025145, the jackpot row of drawing
\* 2025107 under a multiplier that wraps, a row of 7 red and 2 blue tokens
VariantRowPool ==
    { [Red |-> <<"02", "09", "15", "23", "28", "33">>, Blue |-> <<"06">>,
       Multiplier |-> Mult2, Mode |-> ""],
      [Red |-> <<"02", "11", "15", "21", "28", "33">>, Blue |-> <<"07">>,
       Multiplier |-> MultOver, Mode |-> ""],
      [Red |-> <<"02", "11", "15", "21", "28", "33", "09">>, Blue |-> <<"07", "06">>,
       Multiplier |-> I64(1), Mode |-> ""] }

VariantLotteriesUpTo(w) ==
    { [Type |-> h.Type, Issue |-> h.Issue, Tickets |-> rs] :
        h \in VariantHeadPool, rs \in SeqsUpTo(VariantRowPool, w - 1) }

RECURSIVE VariantBatchesUpTo(_)
VariantBatchesUpTo(w) ==
    IF w = 0 THEN {<<>>}
    ELSE {<<>>} \cup
         UNION { { <<l>> \o b : b \in VariantBatchesUpTo(w - 1 - Len(l.Tickets)) } :
                 l \in VariantLotteriesUpTo(w) }

VariantCalls ==
    { [fn |-> "verifyHandler", variant |-> vt, ocrResults |-> ocr] :
        vt \in {"server.go", "part_000"}, ocr \in VariantBatchesUpTo(MaxVariantWork) }

InitVariants ==
    /\ HandlerIdle
    /\ call \in VariantCalls
    /\ ret = NoRet

CallServer ==
    /\ call.fn = "verifyHandler"
    /\ call.variant = "server.go"
    /\ ret = NoRet
    /\ ret' = <<verifyHandler(call.ocrResults)>>
    /\ UNCHANGED <<handlerVars, call>>

CallPart000 ==
    /\ call.fn = "verifyHandler"
    /\ call.variant = "part_000"
    /\ ret = NoRet
    /\ ret' = <<verifyHandler_part_000(call.ocrResults)>>
    /\ UNCHANGED <<handlerVars, call>>

NextVariants == CallServer \/ CallPart000

SpecVariants == InitVariants /\ [][NextVariants]_vars

(***************************************************************************)
(* Claims about DoubleColorVerifier.Verify and combinations                *)
(***************************************************************************)
\* The sets of positions of a row of n tokens that select k of them
PosSubsets(n, k) == {S \in SUBSET (1..n) : Cardinality(S) = k}

\* The tier payouts as the specification's table states them
TablePayoutDoubleColor(redHits, blueHits) ==
    CASE redHits = 6 /\ blueHits = 1 -> 5000000
      [] redHits = 6 /\ blueHits = 0 -> 100000
      [] redHits = 5 /\ blueHits = 1 -> 3000
      [] redHits = 5 /\ blueHits = 0 -> 200
      [] redHits = 4 /\ blueHits = 1 -> 200
      [] redHits = 4 /\ blueHits = 0 -> 10
      [] redHits = 3 /\ blueHits = 1 -> 10
      [] redHits \notin 3..6 /\ blueHits = 1 -> 5
      [] OTHER -> 0

\* The payout of the pair (positions S of the red tokens, position j of the blue tokens)
PairPayout(t, win, S, j) ==
    LET redHits == Cardinality({i \in S : \E k \in 1..Len(win.Red) : win.Red[k] = t.Red[i]})
        blueHits == IF win.Blue # <<>> /\ t.Blue[j] = win.Blue[1] THEN 1 ELSE 0
    IN  TablePayoutDoubleColor(redHits, blueHits)

RECURSIVE PairPayoutSum(_, _, _)
PairPayoutSum(t, win, pairs) ==
    IF pairs = {} THEN 0
    ELSE LET p == CHOOSE q \in pairs : TRUE
         IN  PairPayout(t, win, p[1], p[2]) + PairPayoutSum(t, win, pairs \ {p})

AllPairs(t) == PosSubsets(Len(t.Red), 6) \X (1..Len(t.Blue))

DoubleColorReturned == call.fn = "DoubleColorVerifier.Verify" /\ Returned

\* C1: the totalPayout DoubleColorVerifier.Verify returns is the sum of the
\* table's tier payout over every pair (6 positions of the row's red tokens,
\* one blue token of the row); a row of 7 red tokens is expanded into exactly
\* 7 combinations, hence scored over 7 x |blue tokens| pairs.
C1_TotalIsSumOverPairs ==
    DoubleColorReturned =>
        /\ RetVal.money = PairPayoutSum(call.t, call.win, AllPairs(call.t))
        /\ Len(call.t.Red) = 7 =>
              /\ Len(combinations(call.t.Red, 6)) = 7
              /\ Cardinality(AllPairs(call.t)) = 7 * Len(call.t.Blue)

C1_Witness ==
    /\ DoubleColorReturned
    /\ Len(call.t.Red) = 7
    /\ Len(call.t.Blue) = 2
    /\ call.win = [Red |-> <<"02", "11", "15", "21", "28", "33">>, Blue |-> <<"07">>]
    /\ call.t.Red = <<"02", "02", "05", "02", "02", "02", "02">>
    /\ call.t.Blue = <<"06", "07">>
    /\ RetVal.money = 5000000 + 100000 + 6 * 3000 + 6 * 200

\* The row with token w inserted after position p of its red tokens
WithRed(t, p, w) ==
    [t EXCEPT !.Red = SubSeq(t.Red, 1, p) \o <<w>> \o SubSeq(t.Red, p + 1, Len(t.Red))]

\* C10: adding a winning red token to the row's red tokens, at any position
\* and with the blue tokens unchanged, never decreases totalPayout.
C10_MonotonicInRed ==
    DoubleColorReturned =>
        \A w \in Range(call.win.Red) : \A p \in 0..Len(call.t.Red) :
            DoubleColorVerifier_Verify(WithRed(call.t, p, w), call.win).money >= RetVal.money

\* A jackpot row of 6 red tokens whose payout strictly grows with a 7th winning token
C10_Witness ==
    /\ DoubleColorReturned
    /\ call.t.Red = <<"02", "02", "02", "02", "02", "02">>
    /\ call.t.Blue = <<"07">>
    /\ call.win = [Red |-> <<"02", "11", "15", "21", "28", "33">>, Blue |-> <<"07">>]
    /\ RetVal.money = 5000000
    /\ DoubleColorVerifier_Verify(WithRed(call.t, 6, "02"), call.win).money = 7 * 5000000

\* C8: DoubleColor scoring rejects a row with more red tokens than an explicit
\* bound with a LimitExceeded error and does not score it. Whatever the bound
\* is, a row of MaxRedLen tokens exceeds every bound below MaxRedLen.
C8_LimitEnforced ==
    DoubleColorReturned =>
        \E bound \in 6..(MaxRedLen - 1) :
            Len(call.t.Red) > bound => (RetVal.status = "LimitExceeded" /\ RetVal.money = 0)

(***************************************************************************)
(* Claims about combinations                                               *)
(***************************************************************************)
\* C(n, r) by Pascal's rule
RECURSIVE Binomial(_, _)
Binomial(n, r) ==
    IF r = 0 THEN 1
    ELSE IF n = 0 THEN 0
    ELSE Binomial(n - 1, r - 1) + Binomial(n - 1, r)

\* The tokens of s at the positions S, in the order of s
RECURSIVE Select(_, _, _)
Select(s, S, i) ==
    IF i > Len(s) THEN <<>>
    ELSE (IF i \in S THEN <<s[i]>> ELSE <<>>) \o Select(s, S, i + 1)

CombinationsReturned == call.fn = "combinations" /\ Returned

CountAndShape ==
    LET tokens == call.iterable
        r == call.r
        n == Len(tokens)
    IN  /\ Len(RetVal) = Binomial(n, r)
        /\ \A i \in 1..Len(RetVal) :
              /\ Len(RetVal[i]) = r
              /\ \E S \in PosSubsets(n, r) : RetVal[i] = Select(tokens, S, 1)
        /\ r = 0 => RetVal = << <<>> >>
        /\ r > n => RetVal = <<>>

PairwiseDistinct ==
    \A i, j \in 1..Len(RetVal) : i # j => RetVal[i] # RetVal[j]

\* C7 as stated: for every token sequence, combinations returns C(n, r)
\* pairwise distinct combinations, each of size r and order-preserving.
C7_DistinctCombinations ==
    CombinationsReturned => (CountAndShape /\ PairwiseDistinct)

\* C7 amended: combinations returns C(n, r) combinations, each of size r and
\* order-preserving, exactly one for every selection of r positions of tokens
\* (every selection's combination occurs as often in the result as there are
\* selections yielding it); they are pairwise distinct token sequences when
\* tokens has no repeated token. r = 0 yields one empty combination and
\* r > n yields none.
C7_OnePerSelection ==
    CombinationsReturned =>
        LET tokens == call.iterable
            n == Len(tokens)
            sel == PosSubsets(n, call.r)
        IN  /\ CountAndShape
            /\ \A S \in sel :
                  Cardinality({i \in 1..Len(RetVal) : RetVal[i] = Select(tokens, S, 1)})
                    = Cardinality({T \in sel : Select(tokens, T, 1) = Select(tokens, S, 1)})
            /\ Cardinality(Range(tokens)) = n => PairwiseDistinct

\* A sequence with a repeated token whose 2-combinations repeat
C7_Witness ==
    /\ CombinationsReturned
    /\ call.iterable = <<"02", "05", "02">>
    /\ call.r = 2
    /\ RetVal = << <<"02", "05">>, <<"02", "02">>, <<"05", "02">> >>

(***************************************************************************)
(* Claims about LottoVerifier.Verify, Permutation5Verifier.Verify and the  *)
(* registry                                                                *)
(***************************************************************************)
\* The Lotto tier table as the specification states it: signature -> <<rank, payout>>
TableLotto ==
    (<<5, 2>> :> <<1, 10000000>>) @@ (<<5, 1>> :> <<2, 200000>>) @@
    (<<5, 0>> :> <<3, 10000>>) @@ (<<4, 2>> :> <<4, 3000>>) @@
    (<<4, 1>> :> <<5, 300>>) @@ (<<3, 2>> :> <<6, 200>>) @@
    (<<4, 0>> :> <<7, 100>>) @@ (<<3, 1>> :> <<8, 15>>) @@
    (<<2, 2>> :> <<8, 15>>) @@ (<<3, 0>> :> <<9, 5>>) @@
    (<<2, 1>> :> <<9, 5>>) @@ (<<1, 2>> :> <<9, 5>>) @@ (<<0, 2>> :> <<9, 5>>)

\* The number of positions of a whose token occurs in b
HitCount(a, b) == Cardinality({i \in DOMAIN a : \E k \in DOMAIN b : b[k] = a[i]})

LottoReturned == call.fn = "LottoVerifier.Verify" /\ Returned

\* C2: LottoVerifier.Verify returns the table's (rank, payout) of the single
\* signature (redHits, blueHits) of the whole row, and (0, 0) for every
\* signature the table does not hold, those with redHits > 5 or blueHits > 2
\* among them.
C2_LottoTable ==
    LottoReturned =>
        LET sig == <<HitCount(call.t.Red, call.win.Red), HitCount(call.t.Blue, call.win.Blue)>>
        IN  <<RetVal.level, RetVal.money>> =
                IF sig \in DOMAIN TableLotto THEN TableLotto[sig] ELSE <<0, 0>>

\* A row of 6 red hits and 2 blue hits: more than the base size, scored (0, 0)
C2_Witness ==
    /\ LottoReturned
    /\ call.t.Red = <<"02", "02", "02", "02", "02", "02">>
    /\ call.t.Blue = <<"07", "06">>
    /\ call.win = [Red |-> <<"02", "11", "15", "21", "28">>, Blue |-> <<"07", "06">>]
    /\ RetVal.level = 0
    /\ RetVal.money = 0

Permutation5Returned == call.fn = "Permutation5Verifier.Verify" /\ Returned

Reverse(s) == [i \in 1..Len(s) |-> s[Len(s) + 1 - i]]

\* C3: Permutation5Verifier.Verify returns (1, 100000) exactly when row and
\* winning red both have 5 tokens and agree at every position, and (0, 0) in
\* every other case; the reversal of a matching row that changes some
\* position does not win.
C3_ExactOrderedMatch ==
    Permutation5Returned =>
        LET red == call.t.Red
            winRed == call.win.Red
            same == Len(red) = 5 /\ Len(winRed) = 5 /\ \A i \in 1..5 : red[i] = winRed[i]
        IN  /\ same => (RetVal.level = 1 /\ RetVal.money = 100000)
            /\ ~same => (RetVal.level = 0 /\ RetVal.money = 0)
            /\ (same /\ Reverse(red) # red) =>
                  Permutation5Verifier_Verify([call.t EXCEPT !.Red = Reverse(red)],
                                              call.win).money = 0

\* A row that differs from the winning numbers at the fifth position only
C3_Witness ==
    /\ Permutation5Returned
    /\ call.t.Red = <<"1", "2", "1", "2", "1">>
    /\ call.win.Red = <<"1", "2", "1", "2", "2">>
    /\ RetVal.level = 0

RegistryReturned == call.fn = "resolve" /\ Returned

\* s occurs in label at some offset
Occurs(s, label) ==
    \E off \in 0..Len(label) : off + Len(s) <= Len(label) /\
        \A k \in 1..Len(s) : label[off + k] = s[k]

\* C6: the label resolves to DoubleColor if it contains the DoubleColor label,
\* else to Lotto if it contains the Lotto label, else to Permutation5 if it
\* contains the Permutation5 label, else to no verifier; the result depends
\* only on which game labels the label was built from, not on their order.
C6_PriorityOrder ==
    RegistryReturned =>
        LET has(s) == Occurs(s, call.lotteryType)
            built(s) == s \in Range(call.parts)
        IN  /\ RetVal = IF has(LabelDoubleColor) THEN "DoubleColor"
                        ELSE IF has(LabelLotto) THEN "Lotto"
                        ELSE IF has(LabelPermutation5) THEN "Permutation5"
                        ELSE "nil"
            /\ RetVal = IF built(LabelDoubleColor) THEN "DoubleColor"
                        ELSE IF built(LabelLotto) THEN "Lotto"
                        ELSE IF built(LabelPermutation5) THEN "Permutation5"
                        ELSE "nil"

\* A label that names Permutation5, then Lotto, then DoubleColor
C6_Witness ==
    /\ RegistryReturned
    /\ call.parts = <<LabelPermutation5, LabelLotto, LabelDoubleColor>>
    /\ RetVal = "DoubleColor"

(***************************************************************************)
(* Claims about verifyHandler                                              *)
(***************************************************************************)
Zero8 == [k \in 1..8 |-> 0]

\* The exact product of two non-negative int64, as 16 bytes
ExactMul(a, b) == MulBytes(a \o Zero8, b \o Zero8, 16)

\* 1 iff the int64 is negative
SignBit(x) == IF x[8] >= 128 THEN 1 ELSE 0

\* A 10-byte number: c * 2^64
Times2To64(c) == Zero8 \o <<c, 0>>

\* The sum of the unsigned readings of the first k Prize fields, as 10 bytes
RECURSIVE UnsignedPrizeSum(_, _)
UnsignedPrizeSum(details, k) ==
    IF k = 0 THEN Zero8 \o <<0, 0>>
    ELSE AddBytes(UnsignedPrizeSum(details, k - 1), details[k].Prize \o <<0, 0>>, 10)

RECURSIVE NegativePrizes(_, _)
NegativePrizes(details, k) ==
    IF k = 0 THEN 0 ELSE SignBit(details[k].Prize) + NegativePrizes(details, k - 1)

\* total = sum of the Prize fields, both read as signed integers: with
\* signed(x) = unsigned(x) - 2^64 * SignBit(x), the negative terms change sides
TotalIsSumOfPrizes(total, details) ==
    LET k == Len(details)
    IN  AddBytes(total \o <<0, 0>>, Times2To64(NegativePrizes(details, k)), 10)
          = AddBytes(UnsignedPrizeSum(details, k), Times2To64(SignBit(total)), 10)

\* The ticket being evaluated resolves to a verifier and its rows are in progress
EvaluatingSupported == pc \in {"rows", "append"} /\ verifier # "nil"

\* C4: after the first k rows of a supported ticket, TotalPrize is the sum of
\* the k Prize fields recorded, detail i carries RowIndex i, and its Prize is
\* the payout Verify returned for row i times the row's stake multiplier.
C4_RunningTotal ==
    EvaluatingSupported =>
        LET r == res[1]
            rows == ocrResults[idx + 1].Tickets
        IN  /\ Len(r.Details) = rowIdx
            /\ \A i \in 1..rowIdx :
                  /\ r.Details[i].RowIndex = i
                  /\ SignBit(r.Details[i].Prize) = 0
                  /\ r.Details[i].Prize \o Zero8 =
                        ExactMul(I64(Verify(verifier, rows[i], winNum).money),
                                 rows[i].Multiplier)
            /\ TotalIsSumOfPrizes(r.TotalPrize, r.Details)

\* The int64 running total before row i: the wrapped sum of the earlier prizes
RECURSIVE RunningTotal(_, _)
RunningTotal(details, k) ==
    IF k = 0 THEN I64(0) ELSE I64Add(RunningTotal(details, k - 1), details[k].Prize)

\* The exact product of row i's payout and multiplier does not fit an int64
MulOverflows(i) ==
    LET row == ocrResults[idx + 1].Tickets[i]
        wide == ExactMul(I64(Verify(verifier, row, winNum).money), row.Multiplier)
    IN  SubSeq(wide, 9, 16) # Zero8 \/ wide[8] >= 128

\* Adding row i's Prize to the running total leaves the int64 range: the
\* operands have one sign and the sum the other
AddOverflows(i) ==
    LET before == RunningTotal(res[1].Details, i - 1)
        prize == res[1].Details[i].Prize
    IN  /\ SignBit(before) = SignBit(prize)
        /\ SignBit(I64Add(before, prize)) # SignBit(before)

\* C9: a product or a sum that leaves the int64 range is reported as an
\* ArithmeticOverflow error; no wrapped value is recorded as a Prize or as
\* the TotalPrize.
C9_OverflowReported ==
    EvaluatingSupported =>
        \A i \in 1..Len(res[1].Details) :
            (MulOverflows(i) \/ AddOverflows(i)) =>
                res[1].Details[i].Status = "ArithmeticOverflow"

\* The label contains none of the three game labels
NoGameLabel(label) ==
    /\ ~Occurs(LabelDoubleColor, label)
    /\ ~Occurs(LabelLotto, label)
    /\ ~Occurs(LabelPermutation5, label)

UnsupportedResult(i) ==
    [TicketIndex |-> i, OCRData |-> ocrResults[i], TotalPrize |-> I64(0),
     Details |-> << [RowIndex |-> 0, Level |-> 0, Prize |-> I64(0),
                     Status |-> "Unsupported"] >>]

\* C5: for a ticket whose label holds no game label, no Verify is invoked for
\* any row, and its result has total payout 0 and the single "Unsupported"
\* detail with payout 0; the batch goes on: until it answers, some step of
\* the loops can be taken, and its 200 answer holds a result for every ticket,
\* with one detail and one Verify call per row of every supported ticket.
C5_UnsupportedRecorded ==
    /\ \A i \in 1..Len(ocrResults) :
          NoGameLabel(ocrResults[i].Type) =>
              /\ \A c \in Range(verifyCalls) : c[1] # i
              /\ i <= Len(finalResponse) => finalResponse[i] = UnsupportedResult(i)
    /\ pc \in {"ticket", "rows", "append"} =>
          (MoreTickets \/ NoMoreTickets \/ MoreRows \/ NoMoreRows \/ NoVerifier
             \/ pc = "append")
    /\ httpStatus = 200 =>
          /\ Len(finalResponse) = Len(ocrResults)
          /\ \A i \in 1..Len(ocrResults) :
                ~NoGameLabel(ocrResults[i].Type) =>
                    /\ Len(finalResponse[i].Details) = Len(ocrResults[i].Tickets)
                    /\ \A j \in 1..Len(ocrResults[i].Tickets) :
                          <<i, j>> \in Range(verifyCalls)

\* An unsupported ticket with a row, followed by a DoubleColor ticket that wins
C5_Witness ==
    /\ httpStatus = 200
    /\ Len(ocrResults) = 2
    /\ ocrResults[1].Type = LabelScratch
    /\ Len(ocrResults[1].Tickets) = 1
    /\ finalResponse[1].Details[1].Status = "Unsupported"
    /\ ocrResults[2].Type = LabelDoubleColor
    /\ Len(finalResponse[2].Details) = 1
    /\ finalResponse[2].TotalPrize = I64(10036000)

(***************************************************************************)
(* Claims about the sentinel winning numbers                               *)
(***************************************************************************)
\* The value the lookup returns when it holds no drawing for the key
SentinelWinning == [Red |-> <<"00">>, Blue |-> <<"00">>]

LookupVerifyReturned == call.fn = "lookupAndVerify" /\ Returned

\* C11: when the lookup returns its sentinel winning numbers (red = ["00"],
\* blue = ["00"]), the row is scored as non-winning, rank 0 and payout 0 with
\* the no-win status, for each of the three games and every choice of red and
\* blue tokens.
C11_SentinelNeverWins ==
    (/\ LookupVerifyReturned
     /\ RetVal.verifier \in {"DoubleColor", "Lotto", "Permutation5"}
     /\ RetVal.winNum = SentinelWinning) =>
        /\ RetVal.result.level = 0
        /\ RetVal.result.money = 0
        /\ RetVal.result.status = "NotWon"

(***************************************************************************)
(* Claims about the bestRank of DoubleColorVerifier.Verify                 *)
(***************************************************************************)
\* The tier ranks as the specification's table states them; 0 is no tier
TableRankDoubleColor(redHits, blueHits) ==
    CASE redHits = 6 /\ blueHits = 1 -> 1
      [] redHits = 6 /\ blueHits = 0 -> 2
      [] redHits = 5 /\ blueHits = 1 -> 3
      [] redHits = 5 /\ blueHits = 0 -> 4
      [] redHits = 4 /\ blueHits = 1 -> 4
      [] redHits = 4 /\ blueHits = 0 -> 5
      [] redHits = 3 /\ blueHits = 1 -> 5
      [] redHits \notin 3..6 /\ blueHits = 1 -> 6
      [] OTHER -> 0

\* The rank of the pair (positions S of the red tokens, position j of the blue tokens)
PairRank(t, win, S, j) ==
    LET redHits == Cardinality({i \in S : \E k \in 1..Len(win.Red) : win.Red[k] = t.Red[i]})
        blueHits == IF win.Blue # <<>> /\ t.Blue[j] = win.Blue[1] THEN 1 ELSE 0
    IN  TableRankDoubleColor(redHits, blueHits)

\* The ranks of the pairs of the row that resolve to a nonzero payout
PayingRanks(t, win) ==
    { PairRank(t, win, p[1], p[2]) :
        p \in {q \in AllPairs(t) : PairPayout(t, win, q[1], q[2]) > 0} }

\* C12: the bestRank DoubleColorVerifier.Verify returns is the numerically
\* lowest rank among the (combination, blue) pairs that resolve to a nonzero
\* payout, and it is 0 exactly when no pair pays: bestRank = 0 if and only if
\* totalPayout = 0.
C12_BestRankIsLowest ==
    DoubleColorReturned =>
        LET ranks == PayingRanks(call.t, call.win)
        IN  /\ ranks = {} => RetVal.level = 0
            /\ ranks # {} =>
                  /\ RetVal.level \in ranks
                  /\ \A k \in ranks : RetVal.level <= k
            /\ (RetVal.level = 0) <=> (RetVal.money = 0)

\* A row of 7 red tokens whose first combinations reach rank 4 and a later
\* one rank 2
C12_Witness ==
    /\ DoubleColorReturned
    /\ call.t.Red = <<"02", "05", "02", "02", "02", "02", "02">>
    /\ call.t.Blue = <<"06">>
    /\ call.win = [Red |-> <<"02", "11", "15", "21", "28", "33">>, Blue |-> <<"07">>]
    /\ RetVal.level = 2
    /\ RetVal.money = 100000 + 6 * 200

\* The answer of the step-by-step handler is the finalResponse of verifyHandler
\* as a function of the OCR result
HandlerMatchesFold ==
    httpStatus = 200 => finalResponse = verifyHandler(ocrResults).finalResponse

(***************************************************************************)
(* Claims about the two program variants                                   *)
(***************************************************************************)
VariantReturned == call.fn = "verifyHandler" /\ Returned

\* What the other variant answers to the same OCR result
OtherVariant ==
    IF call.variant = "server.go" THEN verifyHandler_part_000(call.ocrResults)
    ELSE verifyHandler(call.ocrResults)

\* What src/server.go and src/unnamed/part_000 answer to the OCR result of the call
OfServer == IF call.variant = "server.go" THEN RetVal ELSE OtherVariant
OfPart000 == IF call.variant = "part_000" THEN RetVal ELSE OtherVariant

\* Ticket i of the two answers: winning numbers, total payout, ordered details
SameTicket(a, b, i) ==
    /\ a.winNum[i] = b.winNum[i]
    /\ a.finalResponse[i].TotalPrize = b.finalResponse[i].TotalPrize
    /\ a.finalResponse[i].Details = b.finalResponse[i].Details

\* The white-space characters of Unicode, as UTF-8 byte sequences
WhiteSpaceChars ==
    { <<9>>, <<10>>, <<11>>, <<12>>, <<13>>, <<32>>, <<194, 133>>, <<194, 160>>,
      <<225, 154, 128>>, <<226, 128, 128>>, <<226, 128, 129>>, <<226, 128, 130>>,
      <<226, 128, 131>>, <<226, 128, 132>>, <<226, 128, 133>>, <<226, 128, 134>>,
      <<226, 128, 135>>, <<226, 128, 136>>, <<226, 128, 137>>, <<226, 128, 138>>,
      <<226, 128, 168>>, <<226, 128, 169>>, <<226, 128, 175>>, <<226, 129, 159>>,
      <<227, 128, 128>> }

\* s is a run of white-space characters
RECURSIVE OnlyWhiteSpace(_)
OnlyWhiteSpace(s) ==
    \/ s = <<>>
    \/ \E w \in WhiteSpaceChars :
          /\ Len(w) <= Len(s)
          /\ \A k \in 1..Len(w) : s[k] = w[k]
          /\ OnlyWhiteSpace(SubSeq(s, Len(w) + 1, Len(s)))

\* The issue is "2025145" with white space around it, the label holds the
\* DoubleColor label
IsDoubleColor2025145(lottery) ==
    /\ Occurs(LabelDoubleColor, lottery.Type)
    /\ \E i \in 1..Len(lottery.Issue) : \E j \in i..Len(lottery.Issue) :
          /\ SubSeq(lottery.Issue, i, j) = Issue2025145
          /\ OnlyWhiteSpace(SubSeq(lottery.Issue, 1, i - 1))
          /\ OnlyWhiteSpace(SubSeq(lottery.Issue, j + 1, Len(lottery.Issue)))

\* C13 as stated: for every list of recognized tickets, the winning numbers
\* each variant looks up and the per-ticket total payout and ordered details
\* are identical in src/server.go and src/unnamed/part_000.
C13_VariantsEquivalent ==
    VariantReturned =>
        /\ Len(RetVal.finalResponse) = Len(OtherVariant.finalResponse)
        /\ \A i \in 1..Len(call.ocrResults) : SameTicket(RetVal, OtherVariant, i)

\* C13 amended: the variants answer with one result per ticket, and for
\* every ticket other than a DoubleColor ticket of issue 2025145 the winning
\* numbers looked up, the total payout and the ordered details are identical
\* in both; for a DoubleColor ticket of issue 2025145 src/server.go looks up
\* red [02,09,15,23,28,33], blue [06] and src/unnamed/part_000 the sentinel
\* red [00], blue [00].
C13_EquivalentButIssue2025145 ==
    VariantReturned =>
        /\ Len(RetVal.finalResponse) = Len(call.ocrResults)
        /\ Len(OtherVariant.finalResponse) = Len(call.ocrResults)
        /\ \A i \in 1..Len(call.ocrResults) :
              IF IsDoubleColor2025145(call.ocrResults[i])
              THEN /\ OfServer.winNum[i] =
                         [Red |-> <<"02", "09", "15", "23", "28", "33">>, Blue |-> <<"06">>]
                   /\ OfPart000.winNum[i] = SentinelWinning
              ELSE SameTicket(RetVal, OtherVariant, i)

\* src/unnamed/part_000 answers a DoubleColor ticket of issue "2025145\n"
\* holding the jackpot row of that drawing at multiplier 2 with a total of 0,
\* where src/server.go answers 10000000; the ticket after it, of issue
\* "2025107" followed by an ideographic space, is answered alike by both
C13_Witness ==
    /\ VariantReturned
    /\ call.variant = "part_000"
    /\ Len(call.ocrResults) = 2
    /\ call.ocrResults[1].Type = LabelDoubleColor
    /\ call.ocrResults[1].Issue = IssuePadded2025145
    /\ Len(call.ocrResults[1].Tickets) = 1
    /\ call.ocrResults[1].Tickets[1].Red = <<"02", "09", "15", "23", "28", "33">>
    /\ RetVal.finalResponse[1].TotalPrize = I64(0)
    /\ RetVal.finalResponse[1].Details[1].Level = 0
    /\ OtherVariant.finalResponse[1].TotalPrize = I64(10000000)
    /\ OtherVariant.finalResponse[1].Details[1].Level = 1
    /\ call.ocrResults[2].Issue = IssueWide2025107
    /\ RetVal.winNum[2].Blue = <<"07">>
    /\ SameTicket(RetVal, OtherVariant, 2)

====
